---- MODULE Spec2Model ----
(***************************************************************************)
(* A model of the vasm build scripts:                                      *)
(*   x.py              the command table and the dispatch loop             *)
(*   generate-docs.py  the "///" documentation extractor                   *)
(*   todo.py           the TODO extractor                                  *)
(*                                                                         *)
(* Text that the scripts scan is a sequence of one-character strings, so   *)
(* that startswith, strip, find and readlines are computed and not         *)
(* assumed.  A file name is a stem and an extension; name.endswith(e) is   *)
(* ext = e.  Terminal colours and ljust padding are left out of the        *)
(* printed lines.                                                          *)
(***************************************************************************)
EXTENDS Integers, Sequences, FiniteSets, TLC

VARIABLES
    argv,           \* sys.argv[1:], the directives of the invocation
    ZIG,            \* which("zig") is not None
    ASCIIDOCTOR,    \* which("asciidoctor") is not None
    tree,           \* the files on disk, in os.walk / listdir order
    bound,          \* x.py: the module-level names bound so far
    table,          \* x.py: the dict display "commands = {...}" under evaluation
    commands,       \* x.py: the dict built so far, in insertion order
    stmt,           \* x.py: the next module-level statement
    entry,          \* x.py: the next entry of the dict display
    pc,             \* where the process is
    arg,            \* x.py: index of the directive being dispatched
    relier,         \* x.py: index of the next step of that directive's chain
    log,            \* x.py: the functions the dispatch loop has called
    out,            \* the lines printed so far
    exitcode,       \* the status the process exits with (0 unless set)
    fi              \* scripts: index of the next file of the walk

vars == <<argv, ZIG, ASCIIDOCTOR, tree, bound, table, commands, stmt, entry,
          pc, arg, relier, log, out, exitcode, fi>>

\* Bounds of the model.
MaxArgs == 3
MaxLines == 3
MaxEntries == 3

------------------------------------------------------------------------------
(* Python's str and dict operations, as the scripts use them.              *)

IsSpace(c) == c \in {" ", "\t", "\n", "\r"}

RECURSIVE lstrip(_)
lstrip(s) == IF s # <<>> /\ IsSpace(Head(s)) THEN lstrip(Tail(s)) ELSE s

RECURSIVE rstrip(_)
rstrip(s) ==
    IF s # <<>> /\ IsSpace(s[Len(s)]) THEN rstrip(SubSeq(s, 1, Len(s) - 1)) ELSE s

\* str.strip(): leading and trailing whitespace removed.
strip(s) == rstrip(lstrip(s))

startswith(s, prefix) ==
    Len(s) >= Len(prefix) /\ SubSeq(s, 1, Len(prefix)) = prefix

\* str.find(sub): the lowest 0-based index where sub occurs, -1 when it does not.
find(s, sub) ==
    LET At(i) == SubSeq(s, i + 1, i + Len(sub)) = sub
        Hits == {i \in 0..(Len(s) - Len(sub)) : At(i)}
    IN  IF Hits = {} THEN -1 ELSE CHOOSE i \in Hits : \A j \in Hits : i <= j

\* file.readlines(): the content cut after every "\n", the "\n" kept.
RECURSIVE readlines(_)
readlines(content) ==
    IF content = <<>> THEN <<>>
    ELSE LET Ends == {i \in 1..Len(content) : content[i] = "\n"}
             cut == IF Ends = {} THEN Len(content)
                    ELSE CHOOSE i \in Ends : \A j \in Ends : i <= j
         IN  <<SubSeq(content, 1, cut)>>
                 \o readlines(SubSeq(content, cut + 1, Len(content)))

\* os.path.join(dir_path, file)
join(dir_path, file) == dir_path \o "/" \o file.stem \o file.ext

endswith(file, ext) == file.ext = ext

\* A dict is a sequence of entries with distinct names, in insertion order.
DictHas(d, key) == \E i \in 1..Len(d) : d[i].name = key

DictGet(d, key) == d[CHOOSE i \in 1..Len(d) : d[i].name = key]

\* d[key] = value while a dict display is evaluated: a key already present
\* keeps its place and takes the new value, nothing is raised.
DictSetItem_KeepFirst(d, e) == IF DictHas(d, e.name) THEN d ELSE Append(d, e)

DictSetItem(d, e) ==
    IF DictHas(d, e.name)
    THEN [i \in 1..Len(d) |-> IF d[i].name = e.name THEN e ELSE d[i]]
    ELSE Append(d, e)

RECURSIVE DictDisplay(_)
DictDisplay(entries) ==
    IF entries = <<>> THEN <<>>
    ELSE DictSetItem(DictDisplay(SubSeq(entries, 1, Len(entries) - 1)),
                     entries[Len(entries)])

------------------------------------------------------------------------------
(* x.py: the literal command table (lines 167-238).  A runner or a         *)
(* prerequisite is the name of the function the entry refers to; "None" is *)
(* the None of a headless command.                                         *)

Command(name, runner, description, relies_on) ==
    [name |-> name, runner |-> runner, description |-> description,
     relies_on |-> relies_on]

Table == <<
    Command("tests", "tests", "Builds the tests suite", <<"ensure_zig">>),
    Command("tests-summary", "tests_summary", "Builds the tests suite",
            <<"ensure_zig">>),
    Command("clean", "clean", "Cleans any zig cache files", <<>>),
    Command("docs", "docs", "Builds the documentation", <<"ensure_asciidoc">>),
    Command("all", "None",
            "Builds everything including stylist, vasm.adoc, and docs and runs tests silently",
            <<"ensure_zig", "ensure_asciidoc", "tests", "docs", "man_pages",
              "vasm", "site">>),
    Command("help", "help_make", "prints the help menu.", <<>>),
    Command("build", "vasm", "Builds the VASM program.", <<"ensure_zig">>),
    Command("vasm", "vasm", "(alias to build)", <<"ensure_zig">>),
    Command("site", "site", "Builds the website documentation",
            <<"ensure_asciidoc">>),
    Command("man-pages", "man_pages",
            "Builds the manual pages (also places them in the docs/man directory)",
            <<"ensure_asciidoc">>),
    Command("ensure-zig", "ensure_zig", "Ensures that zig is installed", <<>>),
    Command("ensure-asciidoc", "ensure_asciidoc",
            "Ensures that asciidoctor is installed", <<>>),
    Command("open-website", "open_website", "Opens the website", <<>>),
    Command("find-bad-lines", "find_bad_lines",
            "Finds any std.debug.print() calls in the source code", <<>>) >>

\* The names an entry's value refers to, which Python looks up when it
\* evaluates the entry.
Referenced(e) ==
    {e.relies_on[i] : i \in 1..Len(e.relies_on)}
        \cup (IF e.runner = "None" THEN {} ELSE {e.runner})

\* The module-level statements before the table, each with the names it binds
\* (lines 1-164).
Statements == <<
    {"argv"}, {"internal_system", "makedirs", "listdir", "walk"},
    {"basename", "join"}, {"which"}, {"Fore", "Style"}, {"open_url"},
    {"WEB_FORMAT"}, {"MAN_FORMAT"}, {"ASCIIDOCTOR"}, {"ZIG"},
    {"system"}, {"ensure_dir"}, {"ensure_zig"}, {"ensure_asciidoc"},
    {"tests"}, {"tests_summary"}, {"clean"}, {"docs"}, {"site"},
    {"man_pages"}, {"vasm"}, {"find_bad_lines"}, {"all"}, {"max_size"},
    {"help_make"} >>

ModuleNames == UNION {Statements[i] : i \in 1..Len(Statements)}

------------------------------------------------------------------------------
(* x.py: the functions the table refers to (lines 22-164).  A call returns *)
(* the lines it prints and whether it ends the process through exit().     *)
(* Every printed line carries the index of the directive being dispatched. *)

Line(tok, kind, text, extra) ==
    [tok |-> tok, kind |-> kind, text |-> text, extra |-> extra]

Ret(lines) == [out |-> lines, exits |-> FALSE, code |-> 0]

Exit(lines, code) == [out |-> lines, exits |-> TRUE, code |-> code]

\* The tool's path inside an f-string: str(None) when which() found nothing.
ToolStr(found, tool) == IF found THEN tool ELSE "None"

\* system(command): prints the command (the basename of its first word),
\* then hands it to the shell.
system(command, tok) == Line(tok, "system", command[1], command)

ensure_zig_NoExit(tok) ==
    IF ~ZIG
    THEN Ret(<<Line(tok, "warning",
                    "EnsureZig failed: VASM requires Zig to be installed.", <<>>)>>)
    ELSE Ret(<<Line(tok, "print", "has zig.....yes", <<>>)>>)

ensure_zig(tok) ==
    IF ~ZIG
    THEN Exit(<<Line(tok, "warning",
                     "EnsureZig failed: VASM requires Zig to be installed.", <<>>)>>,
              1)
    ELSE Ret(<<Line(tok, "print", "has zig.....yes", <<>>)>>)

ensure_asciidoc(tok) ==
    IF ~ASCIIDOCTOR
    THEN Exit(<<Line(tok, "warning",
                     "EnsureAsciiDoc failed: VASM requires Asciidoctor to be installed.",
                     <<>>)>>,
              1)
    ELSE Ret(<<>>)

tests(tok) == Ret(<<system(<<ToolStr(ZIG, "zig"), "build", "tests">>, tok)>>)

tests_summary(tok) ==
    Ret(<<system(<<ToolStr(ZIG, "zig"), "build", "tests", "--summary", "all">>,
                 tok)>>)

clean(tok) ==
    Ret(<<system(<<"rm", "zig-out", "-rf">>, tok),
          system(<<"rm", ".zig-cache", "-rf">>, tok)>>)

\* docs(): two makedirs(..., exist_ok=True); nothing is printed.
docs(tok) == Ret(<<>>)

\* The .adoc files below a directory, in walk / listdir order.
AdocIn(dir) == SelectSeq(tree, LAMBDA f : f.dir = dir /\ endswith(f, ".adoc"))

site(tok) ==
    LET files == AdocIn("docs")
    IN  Ret([i \in 1..Len(files) |->
                system(<<ToolStr(ASCIIDOCTOR, "asciidoctor"), "-b", "html",
                         join("docs", files[i])>>, tok)])

man_pages(tok) ==
    LET files == AdocIn("man-src")
        Web(f) == system(<<ToolStr(ASCIIDOCTOR, "asciidoctor"), "-b", "html",
                           "./man-src/" \o f.stem \o f.ext, "-o",
                           "./docs/man/" \o f.stem \o ".html">>, tok)
        Man(f) == system(<<ToolStr(ASCIIDOCTOR, "asciidoctor"), "-b", "manpage",
                           "./man-src/" \o f.stem \o f.ext, "-o",
                           "./man/man1/" \o f.stem \o ".1">>, tok)
    IN  Ret([i \in 1..(2 * Len(files)) |->
                IF i % 2 = 1 THEN Web(files[(i + 1) \div 2])
                ELSE Man(files[i \div 2])])

vasm(tok) ==
    Ret(<<system(<<ToolStr(ZIG, "zig"), "build", "--summary", "all">>, tok)>>)

\* "std.debug.print"
BadLineMarker ==
    <<"s", "t", "d", ".", "d", "e", "b", "u", "g", ".", "p", "r", "i", "n", "t">>

\* Iterating a str yields its characters, each a str of length one.
IterStr(text) == [i \in 1..Len(text) |-> <<text[i]>>]

\* The reports of one file: "lines = f.read()" is the whole text, so the
\* loop "for line in lines" visits characters.
BadLineReports(dir, f, tok) ==
    LET hits == SelectSeq(IterStr(f.content),
                          LAMBDA line : find(line, BadLineMarker) # -1)
    IN  [i \in 1..Len(hits) |-> Line(tok, "report", join(dir, f), strip(hits[i]))]

\* The walk of find_bad_lines over the remaining files; open() of an
\* unreadable file raises OSError, which nothing catches.
RECURSIVE ScanZig(_, _, _)
ScanZig(files, printed, tok) ==
    IF files = <<>> THEN Ret(printed)
    ELSE LET f == Head(files)
         IN  IF ~endswith(f, ".zig") THEN ScanZig(Tail(files), printed, tok)
             ELSE IF ~f.readable
             THEN Exit(Append(printed, Line(tok, "traceback", "OSError", <<>>)), 1)
             ELSE ScanZig(Tail(files),
                          printed \o BadLineReports("src", f, tok)
                              \o <<Line(tok, "scanned", join("src", f), <<>>)>>,
                          tok)

find_bad_lines(tok) ==
    ScanZig(SelectSeq(tree, LAMBDA f : f.dir = "src"),
            <<Line(tok, "print", "reporting on source code...", <<>>)>>, tok)

\* The key of help_make's sort: len(commands[command]["relies_on"]).
ReliersOf(d, name) == Len(DictGet(d, name).relies_on)

\* sorted(..., reverse=False) is stable: a name goes after every name already
\* placed whose key is not greater.
SortedInsert_Unstable(d, acc, name) ==
    LET before == Cardinality({i \in 1..Len(acc) :
                                  ReliersOf(d, acc[i]) < ReliersOf(d, name)})
    IN  SubSeq(acc, 1, before) \o <<name>> \o SubSeq(acc, before + 1, Len(acc))

SortedInsert(d, acc, name) ==
    LET before == Cardinality({i \in 1..Len(acc) :
                                  ReliersOf(d, acc[i]) <= ReliersOf(d, name)})
    IN  SubSeq(acc, 1, before) \o <<name>> \o SubSeq(acc, before + 1, Len(acc))

RECURSIVE SortedByReliers(_, _)
SortedByReliers(d, names) ==
    IF names = <<>> THEN <<>>
    ELSE SortedInsert(d, SortedByReliers(d, SubSeq(names, 1, Len(names) - 1)),
                      names[Len(names)])

\* Iterating a dict yields its keys in insertion order.
Keys(d) == [i \in 1..Len(d) |-> d[i].name]

\* The lines help_make prints for the commands: one per command and, for a
\* command with prerequisites, one naming them.
RECURSIVE HelpLines(_, _, _)
HelpLines(d, names, tok) ==
    IF names = <<>> THEN <<>>
    ELSE LET c == DictGet(d, Head(names))
         IN  <<Line(tok, "command", c.name, <<c.description>>)>>
                 \o (IF Len(c.relies_on) > 0
                     THEN <<Line(tok, "relies on steps", c.name, c.relies_on)>>
                     ELSE <<>>)
                 \o HelpLines(d, Tail(names), tok)

help_make_NoExit(tok) ==
    Ret(<<Line(tok, "usage", "usage: x.py [DIRECTIVE...]", <<>>)>>
            \o HelpLines(commands, SortedByReliers(commands, Keys(commands)), tok))

help_make(tok) ==
    Exit(<<Line(tok, "usage", "usage: x.py [DIRECTIVE...]", <<>>)>>
             \o HelpLines(commands, SortedByReliers(commands, Keys(commands)), tok),
         0)

\* Calling the function a table entry names.  open_website is bound nowhere
\* in x.py, so no call of it is modelled.
CallFn(fn, tok) ==
    CASE fn = "ensure_zig" -> ensure_zig(tok)
      [] fn = "ensure_asciidoc" -> ensure_asciidoc(tok)
      [] fn = "tests" -> tests(tok)
      [] fn = "tests_summary" -> tests_summary(tok)
      [] fn = "clean" -> clean(tok)
      [] fn = "docs" -> docs(tok)
      [] fn = "site" -> site(tok)
      [] fn = "man_pages" -> man_pages(tok)
      [] fn = "vasm" -> vasm(tok)
      [] fn = "find_bad_lines" -> find_bad_lines(tok)
      [] fn = "help_make" -> help_make(tok)

------------------------------------------------------------------------------
(* The inputs: lines of source text, file contents, trees, directives.     *)

\* "/// does X"
LineDoc ==
    <<"/", "/", "/", " ", "d", "o", "e", "s", " ", "X", "\n">>

\* the bare marker
LineBare ==
    <<"/", "/", "/", "\n">>

\* "code();"
LineCode ==
    <<"c", "o", "d", "e", "(", ")", ";", "\n">>

\* a marker after leading blanks
LineDocIndented ==
    <<" ", " ", "/", "/", "/", " ", "y", "\n">>

\* the bare marker followed by blanks
LineBarePadded ==
    <<"/", "/", "/", " ", " ", "\n">>

\* a marker line that ends the file without "\n"
LineDocNoNewline ==
    <<"/", "/", "/", " ", "z">>

\* "x = 1 // TODO fix this"
LineTodo ==
    <<"x", " ", "=", " ", "1", " ", "/", "/", " ", "T", "O", "D", "O", " ",
      "f", "i", "x", " ", "t", "h", "i", "s", "\n">>

\* the marker in lower case
LineTodoLower ==
    <<" ", " ", "/", "/", " ", "t", "o", "d", "o", "\n">>

\* a call of std.debug.print
LinePrint ==
    <<" ", " ", "s", "t", "d", ".", "d", "e", "b", "u", "g", ".", "p", "r",
      "i", "n", "t", "(", "x", ")", ";", "\n">>

SourceLines ==
    {LineDoc, LineBare, LineCode, LineDocIndented, LineBarePadded, LineDocNoNewline,
     LineTodo, LineTodoLower, LinePrint}

RECURSIVE Concat(_)
Concat(ls) == IF ls = <<>> THEN <<>> ELSE Head(ls) \o Concat(Tail(ls))

\* The contents of a file of at most MaxLines of these lines.
Contents ==
    {Concat(ls) : ls \in UNION {[1..n -> SourceLines] : n \in 0..MaxLines}}

File(dir, stem, ext, readable, content) ==
    [dir |-> dir, stem |-> stem, ext |-> ext, readable |-> readable,
     content |-> content]

\* A second file that every scanned tree holds.
UtilZig == File("src", "util", ".zig", TRUE, LineTodo \o LineDoc \o LinePrint)

\* The trees the scripts scan: one file drawn from the inputs, then util.zig.
Trees ==
    {<<File(d, "a", e, r, c), UtilZig>> :
        d \in {"src", "docs"}, e \in {".zig", ".txt"}, r \in BOOLEAN,
        c \in Contents}

\* The tree x.py is run in.
ProjectTree == <<
    File("src", "main", ".zig", TRUE, LineDoc \o LinePrint),
    File("docs", "index", ".adoc", TRUE, <<>>),
    File("docs", "style", ".css", TRUE, <<>>),
    File("man-src", "vasm", ".adoc", TRUE, <<>>) >>

\* The directives an invocation is drawn from; "bogus" names no command.
ArgTokens ==
    {"clean", "tests", "all", "help", "ensure-asciidoc", "find-bad-lines", "bogus"}

ArgvSeqs == UNION {[1..n -> ArgTokens] : n \in 0..MaxArgs}

------------------------------------------------------------------------------
(* x.py: the dispatch loop (lines 240-253), started with the registry that *)
(* the table denotes.  As shipped, the evaluation of the table stops at    *)
(* the entry "open-website" (SpecStartup below), so this is the loop of    *)
(* the script once that name is bound; "open-website" is not among the     *)
(* directives drawn, its runner having no body to model.                   *)

Init ==
    /\ argv \in ArgvSeqs
    /\ ZIG \in BOOLEAN
    /\ ASCIIDOCTOR \in BOOLEAN
    /\ tree = ProjectTree
    /\ bound = ModuleNames \cup {"commands"}
    /\ table = <<>>
    /\ commands = DictDisplay(Table)
    /\ stmt = Len(Statements) + 1
    /\ entry = 1
    /\ pc = "for"
    /\ arg = 1
    /\ relier = 1
    /\ log = <<>>
    /\ out = <<>>
    /\ exitcode = 0
    /\ fi = 1

Called(tok, fn, role) == [tok |-> tok, fn |-> fn, role |-> role]

\* commands.get(arg) is not None: the prerequisites come first.
Lookup ==
    /\ pc = "for"
    /\ arg <= Len(argv)
    /\ DictHas(commands, argv[arg])
    /\ pc' = "reliers"
    /\ relier' = 1
    /\ UNCHANGED <<argv, ZIG, ASCIIDOCTOR, tree, bound, table, commands, stmt,
                   entry, arg, log, out, exitcode, fi>>

\* The else branch: one notice, and the loop goes on.
UnknownDirective_Abort ==
    /\ pc = "for"
    /\ arg <= Len(argv)
    /\ ~DictHas(commands, argv[arg])
    /\ out' = Append(out, Line(arg, "unknown build directive", argv[arg], <<>>))
    /\ pc' = "exited"
    /\ exitcode' = 1
    /\ UNCHANGED <<argv, ZIG, ASCIIDOCTOR, tree, bound, table, commands, stmt,
                   entry, arg, relier, log, fi>>

UnknownDirective ==
    /\ pc = "for"
    /\ arg <= Len(argv)
    /\ ~DictHas(commands, argv[arg])
    /\ out' = Append(out, Line(arg, "unknown build directive", argv[arg], <<>>))
    /\ arg' = arg + 1
    /\ UNCHANGED <<argv, ZIG, ASCIIDOCTOR, tree, bound, table, commands, stmt,
                   entry, pc, relier, log, exitcode, fi>>

\* One round of "for relier in commands[arg]['relies_on']".
RunRelier_Memoized ==
    /\ pc = "reliers"
    /\ relier <= Len(DictGet(commands, argv[arg]).relies_on)
    /\ LET fn == DictGet(commands, argv[arg]).relies_on[relier]
           r == CallFn(fn, arg)
       IN  IF \E i \in 1..Len(log) : log[i].fn = fn
           THEN /\ relier' = relier + 1
                /\ UNCHANGED <<log, out, pc, exitcode>>
           ELSE /\ log' = Append(log, Called(arg, fn, "relier"))
                /\ out' = Append(out, Line(arg, "running dependent step", fn, <<>>))
                              \o r.out
                /\ IF r.exits
                   THEN pc' = "exited" /\ exitcode' = r.code /\ relier' = relier
                   ELSE relier' = relier + 1 /\ UNCHANGED <<pc, exitcode>>
    /\ UNCHANGED <<argv, ZIG, ASCIIDOCTOR, tree, bound, table, commands, stmt,
                   entry, arg, fi>>

RunRelier ==
    /\ pc = "reliers"
    /\ relier <= Len(DictGet(commands, argv[arg]).relies_on)
    /\ LET fn == DictGet(commands, argv[arg]).relies_on[relier]
           r == CallFn(fn, arg)
       IN  IF fn = "None"
           THEN /\ relier' = relier + 1
                /\ UNCHANGED <<log, out, pc, exitcode>>
           ELSE /\ log' = Append(log, Called(arg, fn, "relier"))
                /\ out' = Append(out, Line(arg, "running dependent step", fn, <<>>))
                              \o r.out
                /\ IF r.exits
                   THEN pc' = "exited" /\ exitcode' = r.code /\ relier' = relier
                   ELSE relier' = relier + 1 /\ UNCHANGED <<pc, exitcode>>
    /\ UNCHANGED <<argv, ZIG, ASCIIDOCTOR, tree, bound, table, commands, stmt,
                   entry, arg, fi>>

\* After the prerequisites: the runner, unless the command is headless.
RunRunner ==
    /\ pc = "reliers"
    /\ relier > Len(DictGet(commands, argv[arg]).relies_on)
    /\ LET fn == DictGet(commands, argv[arg]).runner
           r == CallFn(fn, arg)
       IN  IF fn = "None"
           THEN /\ pc' = "for"
                /\ arg' = arg + 1
                /\ UNCHANGED <<log, out, exitcode>>
           ELSE /\ log' = Append(log, Called(arg, fn, "runner"))
                /\ out' = out \o r.out
                /\ IF r.exits
                   THEN pc' = "exited" /\ exitcode' = r.code /\ arg' = arg
                   ELSE pc' = "for" /\ arg' = arg + 1 /\ UNCHANGED exitcode
    /\ UNCHANGED <<argv, ZIG, ASCIIDOCTOR, tree, bound, table, commands, stmt,
                   entry, relier, fi>>

\* argv is exhausted: the script ends and the process exits with 0.
Finish ==
    /\ pc = "for"
    /\ arg > Len(argv)
    /\ pc' = "end"
    /\ UNCHANGED <<argv, ZIG, ASCIIDOCTOR, tree, bound, table, commands, stmt,
                   entry, arg, relier, log, out, exitcode, fi>>

Next == Lookup \/ UnknownDirective \/ RunRelier \/ RunRunner \/ Finish

Spec == Init /\ [][Next]_vars

------------------------------------------------------------------------------
(* Properties of the dispatch loop.                                        *)

\* The position of a name in the literal table, and what the table says of it.
TableNames == {Table[i].name : i \in 1..Len(Table)}

TablePos(name) == CHOOSE i \in 1..Len(Table) : Table[i].name = name

\* What one dispatch of directive i has to call: the prerequisites in the
\* declared order, then the runner of a command that has one.
ChainAt(i) ==
    IF argv[i] \notin TableNames THEN <<>>
    ELSE LET c == Table[TablePos(argv[i])]
         IN  [j \in 1..Len(c.relies_on) |-> Called(i, c.relies_on[j], "relier")]
                 \o (IF c.runner = "None" THEN <<>>
                     ELSE <<Called(i, c.runner, "runner")>>)

RECURSIVE ChainsUpTo(_)
ChainsUpTo(n) == IF n = 0 THEN <<>> ELSE ChainsUpTo(n - 1) \o ChainAt(n)

\* The steps of the current directive's chain that have been taken.
StepsTaken ==
    CASE pc = "reliers" -> relier - 1
      [] pc = "exited" -> relier
      [] OTHER -> 0

RECURSIVE UnknownBefore(_)
UnknownBefore(n) ==
    IF n <= 1 THEN <<>>
    ELSE UnknownBefore(n - 1)
             \o (IF argv[n - 1] \in TableNames THEN <<>>
                 ELSE << <<n - 1, argv[n - 1]>> >>)

UnknownNotices ==
    LET ls == SelectSeq(out, LAMBDA l : l.kind = "unknown build directive")
    IN  [k \in 1..Len(ls) |-> <<ls[k].tok, ls[k].text>>]

Checks == {"ensure_zig", "ensure_asciidoc"}

\* The process has ended in an ensure step that found its tool missing.
ExitedForMissingTool ==
    /\ pc = "exited"
    /\ exitcode = 1
    /\ out # <<>>
    /\ out[Len(out)].kind = "warning"

Listing ==
    LET ls == SelectSeq(out, LAMBDA l : l.kind = "command")
    IN  [k \in 1..Len(ls) |-> ls[k].text]

HelpPrinted == \E k \in 1..Len(out) : out[k].kind = "usage"

------------------------------------------------------------------------------
(* x.py from the start of the process: the module-level statements, then   *)
(* the evaluation of the dict display, entry by entry (lines 1-238).       *)

InitStartup ==
    /\ argv \in ArgvSeqs
    /\ ZIG \in BOOLEAN
    /\ ASCIIDOCTOR \in BOOLEAN
    /\ tree = ProjectTree
    /\ bound = {}
    /\ table = Table
    /\ commands = <<>>
    /\ stmt = 1
    /\ entry = 1
    /\ pc = "module"
    /\ arg = 1
    /\ relier = 1
    /\ log = <<>>
    /\ out = <<>>
    /\ exitcode = 0
    /\ fi = 1

\* An import, an assignment or a def: its names are bound.
ExecStatement ==
    /\ pc = "module"
    /\ stmt <= Len(Statements)
    /\ bound' = bound \cup Statements[stmt]
    /\ stmt' = stmt + 1
    /\ pc' = IF stmt = Len(Statements) THEN "table" ELSE "module"
    /\ UNCHANGED <<argv, ZIG, ASCIIDOCTOR, tree, table, commands, entry, arg,
                   relier, log, out, exitcode, fi>>

\* One entry of the display: the names of its value are looked up, an unbound
\* one raises NameError, which nothing catches; else the entry is stored.
BuildEntry ==
    /\ pc = "table"
    /\ entry <= Len(table)
    /\ IF Referenced(table[entry]) \subseteq bound
       THEN /\ commands' = DictSetItem(commands, table[entry])
            /\ entry' = entry + 1
            /\ UNCHANGED <<pc, out, exitcode>>
       ELSE /\ pc' = "NameError"
            /\ exitcode' = 1
            /\ out' = Append(out, Line(0, "traceback", "NameError", <<>>))
            /\ UNCHANGED <<commands, entry>>
    /\ UNCHANGED <<argv, ZIG, ASCIIDOCTOR, tree, bound, table, stmt, arg, relier,
                   log, fi>>

\* The display is complete: it is bound to "commands" and the loop is next.
BindCommands ==
    /\ pc = "table"
    /\ entry > Len(table)
    /\ bound' = bound \cup {"commands"}
    /\ pc' = "for"
    /\ UNCHANGED <<argv, ZIG, ASCIIDOCTOR, tree, table, commands, stmt, entry,
                   arg, relier, log, out, exitcode, fi>>

NextStartup == ExecStatement \/ BuildEntry

SpecStartup == InitStartup /\ [][NextStartup]_vars

\* C10: every function the table names as a runner or as a prerequisite is
\* defined before the table is built, so the construction of the registry
\* never fails and the process goes on to the dispatch loop.
C10_TableNamesAreDefined ==
    /\ pc = "table" /\ entry <= Len(table) => Referenced(table[entry]) \subseteq bound
    /\ pc # "NameError"

------------------------------------------------------------------------------
(* The dict display over tables that name a command more than once.        *)

EntryPool ==
    {Command(n, r, "Builds the VASM program.", rel) :
        n \in {"build", "vasm"}, r \in {"vasm", "None", "open_website"},
        rel \in {<<>>, <<"ensure_zig">>}}

TableSeqs == UNION {[1..n -> EntryPool] : n \in 0..MaxEntries}

InitRegistry ==
    /\ argv = <<>>
    /\ ZIG = TRUE
    /\ ASCIIDOCTOR = TRUE
    /\ tree = ProjectTree
    /\ bound = ModuleNames
    /\ table \in TableSeqs
    /\ commands = <<>>
    /\ stmt = Len(Statements) + 1
    /\ entry = 1
    /\ pc = "table"
    /\ arg = 1
    /\ relier = 1
    /\ log = <<>>
    /\ out = <<>>
    /\ exitcode = 0
    /\ fi = 1

NextRegistry == BuildEntry \/ BindCommands

SpecRegistry == InitRegistry /\ [][NextRegistry]_vars

\* An entry has been stored under a name that an earlier entry had taken.
DuplicateStored ==
    \E i, j \in 1..(entry - 1) : i < j /\ table[i].name = table[j].name

FirstEntry(name) ==
    CHOOSE j \in 1..(entry - 1) :
        /\ table[j].name = name
        /\ \A h \in 1..(entry - 1) : table[h].name = name => j <= h

LastEntry(name) ==
    CHOOSE j \in 1..(entry - 1) :
        /\ table[j].name = name
        /\ \A h \in 1..(entry - 1) : table[h].name = name => h <= j

------------------------------------------------------------------------------
(* generate-docs.py and todo.py: the extractor, and the walk over ".".     *)

\* "///"
DocMarker == <<"/", "/", "/">>

\* "TODO"
TodoMarker == <<"T", "O", "D", "O">>

\* generate-docs.py, the loop "for line in lines" of extractAllDocumentation.
RECURSIVE DocLoop(_, _)
DocLoop(lines, doc_lines) ==
    IF lines = <<>> THEN doc_lines
    ELSE LET line == Head(lines)
         IN  DocLoop(Tail(lines),
                     IF startswith(line, DocMarker) /\ strip(line) # DocMarker
                     THEN Append(doc_lines, strip(line))
                     ELSE doc_lines)

RECURSIVE DocLoop_Anywhere(_, _)
DocLoop_Anywhere(lines, doc_lines) ==
    IF lines = <<>> THEN doc_lines
    ELSE LET line == Head(lines)
         IN  DocLoop_Anywhere(Tail(lines),
                     IF find(line, DocMarker) # -1 /\ strip(line) # DocMarker
                     THEN Append(doc_lines, strip(line))
                     ELSE doc_lines)

extractAllDocumentation_Anywhere(content) ==
    DocLoop_Anywhere(readlines(content), <<>>)

\* generate-docs.py, extractAllDocumentation of a file that opens.
extractAllDocumentation(content) == DocLoop(readlines(content), <<>>)

\* todo.py, the loop "for line in lines" of its extractAllDocumentation.
RECURSIVE TodoLoop(_, _)
TodoLoop(lines, todo_lines) ==
    IF lines = <<>> THEN todo_lines
    ELSE LET line == Head(lines)
         IN  TodoLoop(Tail(lines),
                      IF find(line, TodoMarker) # -1
                      THEN Append(todo_lines, strip(line))
                      ELSE todo_lines)

\* todo.py, extractAllDocumentation of a file that opens.
extractAllDocumentation_todo(content) == TodoLoop(readlines(content), <<>>)

\* The lines of one block: the header, then each extracted line.  The walk
\* starts at ".", so the path of a file is "./<dir>/<name>".
Block(i, path, extracted) ==
    <<Line(i, "documentation in", path, <<>>)>>
        \o [k \in 1..Len(extracted) |-> Line(i, "extracted", path, extracted[k])]

OpenFailed(i) ==
    Line(i, "error", "error: failed to extract documentation because of error", <<>>)

InitScripts ==
    /\ argv = <<>>
    /\ ZIG = TRUE
    /\ ASCIIDOCTOR = TRUE
    /\ tree \in Trees
    /\ bound = {}
    /\ table = <<>>
    /\ commands = <<>>
    /\ stmt = 1
    /\ entry = 1
    /\ pc = "walk"
    /\ arg = 1
    /\ relier = 1
    /\ log = <<>>
    /\ out = <<>>
    /\ exitcode = 0
    /\ fi = 1

\* generate-docs.py, one file of the walk: a .zig file is extracted and its
\* block printed, whatever was found; a file that does not open ends the run.
VisitFileDocs ==
    /\ pc = "walk"
    /\ fi <= Len(tree)
    /\ LET f == tree[fi]
       IN  IF ~endswith(f, ".zig")
           THEN fi' = fi + 1 /\ UNCHANGED <<out, pc, exitcode>>
           ELSE IF ~f.readable
           THEN /\ out' = Append(out, OpenFailed(fi))
                /\ pc' = "exited"
                /\ exitcode' = 1
                /\ fi' = fi
           ELSE /\ out' = out \o Block(fi, join("./" \o f.dir, f),
                                       extractAllDocumentation(f.content))
                /\ fi' = fi + 1
                /\ UNCHANGED <<pc, exitcode>>
    /\ UNCHANGED <<argv, ZIG, ASCIIDOCTOR, tree, bound, table, commands, stmt,
                   entry, arg, relier, log>>

\* todo.py, one file of the walk: as above, but "if len(todos) <= 0: continue".
VisitFileTodo_AlwaysHeader ==
    /\ pc = "walk"
    /\ fi <= Len(tree)
    /\ LET f == tree[fi]
       IN  IF ~endswith(f, ".zig")
           THEN fi' = fi + 1 /\ UNCHANGED <<out, pc, exitcode>>
           ELSE IF ~f.readable
           THEN /\ out' = Append(out, OpenFailed(fi))
                /\ pc' = "exited"
                /\ exitcode' = 1
                /\ fi' = fi
           ELSE /\ out' = out \o Block(fi, join("./" \o f.dir, f),
                                       extractAllDocumentation_todo(f.content))
                /\ fi' = fi + 1
                /\ UNCHANGED <<pc, exitcode>>
    /\ UNCHANGED <<argv, ZIG, ASCIIDOCTOR, tree, bound, table, commands, stmt,
                   entry, arg, relier, log>>

VisitFileTodo ==
    /\ pc = "walk"
    /\ fi <= Len(tree)
    /\ LET f == tree[fi]
           todos == extractAllDocumentation_todo(f.content)
       IN  IF ~endswith(f, ".zig")
           THEN fi' = fi + 1 /\ UNCHANGED <<out, pc, exitcode>>
           ELSE IF ~f.readable
           THEN /\ out' = Append(out, OpenFailed(fi))
                /\ pc' = "exited"
                /\ exitcode' = 1
                /\ fi' = fi
           ELSE /\ out' = IF Len(todos) <= 0 THEN out
                          ELSE out \o Block(fi, join("./" \o f.dir, f), todos)
                /\ fi' = fi + 1
                /\ UNCHANGED <<pc, exitcode>>
    /\ UNCHANGED <<argv, ZIG, ASCIIDOCTOR, tree, bound, table, commands, stmt,
                   entry, arg, relier, log>>

\* The walk has no file left: the script ends.
WalkEnd ==
    /\ pc = "walk"
    /\ fi > Len(tree)
    /\ pc' = "end"
    /\ UNCHANGED <<argv, ZIG, ASCIIDOCTOR, tree, bound, table, commands, stmt,
                   entry, arg, relier, log, out, exitcode, fi>>

NextDocs == VisitFileDocs \/ WalkEnd

SpecDocs == InitScripts /\ [][NextDocs]_vars

NextTodo == VisitFileTodo \/ WalkEnd

SpecTodo == InitScripts /\ [][NextTodo]_vars

\* x.py, find_bad_lines run over the tree.
RunFindBadLines ==
    /\ pc = "walk"
    /\ LET r == find_bad_lines(1)
       IN  /\ out' = out \o r.out
           /\ pc' = IF r.exits THEN "exited" ELSE "end"
           /\ exitcode' = IF r.exits THEN r.code ELSE exitcode
    /\ UNCHANGED <<argv, ZIG, ASCIIDOCTOR, tree, bound, table, commands, stmt,
                   entry, arg, relier, log, fi>>

NextBadLines == RunFindBadLines

SpecBadLines == InitScripts /\ [][NextBadLines]_vars

------------------------------------------------------------------------------
(* Properties of the extractors, stated on the text itself.                *)

Blank(c) == c = " " \/ c = "\t" \/ c = "\n" \/ c = "\r"

\* A line without the blanks at its two ends.
Trimmed(l) ==
    LET Inked == {i \in 1..Len(l) : ~Blank(l[i])}
    IN  IF Inked = {} THEN <<>>
        ELSE SubSeq(l, CHOOSE a \in Inked : \A i \in Inked : a <= i,
                       CHOOSE b \in Inked : \A i \in Inked : i <= b)

\* The lines of a text: every piece that ends with "\n", and what is left.
LineEnds(text) == {i \in 1..Len(text) : text[i] = "\n" \/ i = Len(text)}

LinesOf(text) ==
    LET E == LineEnds(text)
        Nth(k) == CHOOSE e \in E : Cardinality({x \in E : x <= e}) = k
    IN  [k \in 1..Cardinality(E) |->
            SubSeq(text, IF k = 1 THEN 1 ELSE Nth(k - 1) + 1, Nth(k))]

BeginsWithMarker(l) == Len(l) >= 3 /\ l[1] = "/" /\ l[2] = "/" /\ l[3] = "/"

IsDocLine(l) == BeginsWithMarker(l) /\ Trimmed(l) # <<"/", "/", "/">>

HasTodo(l) ==
    \E k \in 1..(Len(l) - 3) :
        l[k] = "T" /\ l[k + 1] = "O" /\ l[k + 2] = "D" /\ l[k + 3] = "O"

HasPrintCall(l) ==
    \E k \in 0..(Len(l) - Len(BadLineMarker)) :
        \A m \in 1..Len(BadLineMarker) : l[k + m] = BadLineMarker[m]

\* Whether `got` is, in order, the trimmed lines of `text` that satisfy Sel.
IsSelection(got, text, Sel(_)) ==
    LET ls == LinesOf(text)
        S == {i \in 1..Len(ls) : Sel(ls[i])}
    IN  /\ Len(got) = Cardinality(S)
        /\ \A i \in S : got[Cardinality({j \in S : j <= i})] = Trimmed(ls[i])

\* What was printed for file i of the tree.
PrintedFor(i) == SelectSeq(out, LAMBDA l : l.tok = i)

ExtractedFor(i) ==
    LET ls == SelectSeq(out, LAMBDA l : l.tok = i /\ l.kind = "extracted")
    IN  [k \in 1..Len(ls) |-> ls[k].extra]

Extracted(i) == i < fi /\ endswith(tree[i], ".zig") /\ tree[i].readable

\* C7: for every file content the documentation extractor returns, in file
\* order, exactly the trimmed lines that begin with "///" and are not the
\* bare marker; the bare marker and the lines that do not begin with the
\* marker are left out.
C7_DocLinesExtracted ==
    \A i \in 1..Len(tree) :
        Extracted(i) => IsSelection(ExtractedFor(i), tree[i].content, IsDocLine)

\* The file "/// does X", "///", "code();" has been extracted and gave
\* exactly "/// does X".
C7_Witness ==
    /\ Extracted(1)
    /\ tree[1].content = LineDoc \o LineBare \o LineCode
    /\ ExtractedFor(1) = << <<"/", "/", "/", " ", "d", "o", "e", "s", " ", "X">> >>

\* C8: for every file content the TODO extractor returns, in file order,
\* exactly the trimmed lines that contain "TODO" anywhere; a file without the
\* marker gives nothing and the walk prints no block, not even the header,
\* for it.
C8_TodoLinesExtracted ==
    \A i \in 1..Len(tree) :
        Extracted(i) =>
            /\ IsSelection(ExtractedFor(i), tree[i].content, HasTodo)
            /\ (\A k \in 1..Len(LinesOf(tree[i].content)) :
                    ~HasTodo(LinesOf(tree[i].content)[k]))
                  => PrintedFor(i) = <<>>
            /\ PrintedFor(i) # <<>> =>
                  /\ PrintedFor(i)[1].kind = "documentation in"
                  /\ Len(PrintedFor(i)) = 1 + Len(ExtractedFor(i))

\* A file with lines but no "TODO" was walked without a block, and the file
\* after it, with "TODO" in the middle of a line, got its block.
C8_Witness ==
    /\ pc = "end"
    /\ Extracted(1) /\ Extracted(2)
    /\ tree[1].content = LineCode \o LineTodoLower
    /\ PrintedFor(1) = <<>>
    /\ Len(PrintedFor(2)) = 2
    /\ ExtractedFor(2) = <<Trimmed(LineTodo)>>

\* The reports find_bad_lines printed for a path.
ReportsFor(path) ==
    LET ls == SelectSeq(out, LAMBDA l : l.kind = "report" /\ l.text = path)
    IN  [k \in 1..Len(ls) |-> ls[k].extra]

\* C9: find_bad_lines locates the std.debug.print calls: for every scanned
\* .zig file it reports, as "<path>: <trimmed line>", every line that
\* contains "std.debug.print", and no other line.
C9_PrintCallsReported ==
    pc = "end" =>
        \A i \in 1..Len(tree) :
            tree[i].dir = "src" /\ endswith(tree[i], ".zig") =>
                IsSelection(ReportsFor(join("src", tree[i])), tree[i].content,
                            HasPrintCall)

====
